---- MODULE Spec2Model ----
(***************************************************************************)
(* A state-machine model of cloud-init.py (frontmark/ionos-cloud-init):    *)
(* the availability barrier all_available, and the program's main block    *)
(* with the operations create, attach, detach, delete and the firewall     *)
(* rule functions, run against a model of the remote datacenter.           *)
(***************************************************************************)
EXTENDS Integers, Sequences, FiniteSets, TLC

VARIABLES
    \* ---- all_available (src/cloud-init.py:113-143) ----
    hrefs,          \* the argument: the list of hrefs to wait for
    limit,          \* local variable limit
    all_available,  \* local variable all_available
    bpc,            \* position inside all_available
    hidx,           \* position of the for loop over hrefs
    rounds,         \* history: polling rounds begun (executions of the for loop)
    sleeps,         \* history: calls of time.sleep(5)
    okRound,        \* history: positions of hrefs that reported AVAILABLE in this round
    seen,           \* history: the first MaxSeen statuses read (after the KeyError mapping)
    rawSeen,        \* history: whether some response so far carried no state field
    \* ---- the program: main block and the operations it calls ----
    json_files,     \* json_files["web1.json"]: volumes, nics, evolumes, enics
    dc,             \* the remote datacenter: the list of its servers
    nextHref,       \* the next href the remote side hands out
    env,            \* os.environ: ACTION, SERVER, VOLUME, NIC, FIREWALLRULE
    pc,             \* position of the program
    err,            \* why the program ended with exit(1)
    top,            \* the operation main dispatched to
    href,           \* the server href the running operation works on
    type,           \* "volumes" or "nics"
    name,           \* the component or firewall rule name being handled
    comp,           \* detach_single: href of the component to delete
    nic_name,       \* fwrules_*_single: the NIC name
    i, j, k, l,     \* loop positions (outer nic, outer rule, inner nic, inner rule/item)
    items,          \* a list fetched from the remote side (detach, fwrules_delete_single)
    disk,           \* the file web1.json as it lies on disk (what glob/json.load reads)
    cloud_configs,  \* os.listdir of the datacenter's cloud-configs directory
    runs,           \* history: how many times the program has been started
    confirmed,      \* history: the operator answered yes and the right result in this run
    sent,           \* history: the volumes of the request payloads posted in this run, in order
    other,          \* position of a second invocation of create that runs at the same time
    log             \* history: mutating calls issued and barriers passed in this run, in order

bvars == <<hrefs, limit, all_available, bpc, hidx, rounds, sleeps, okRound, seen, rawSeen>>
fixed == <<disk, cloud_configs>>
pvars == <<sent, other, fixed, runs, confirmed, json_files, dc, nextHref, env, pc, err, top, href,
           type, name, comp, nic_name, i, j, k, l, items, log>>
vars == <<bvars, pvars>>

\* ------------------------------------------------------------------ bounds
MaxHrefs == 2   \* longest href list handed to all_available
MaxSeen == 3    \* how many of the first statuses read are remembered
MaxVols == 2    \* longest declared standalone volume list, and longest remote one
MaxRules == 2   \* longest firewallrules list of one NIC, declared or remote
MaxRuns == 2    \* how many times the program is started on the same datacenter
MaxItems == 3   \* longest collection name_to_href goes through on its own

\* ------------------------------------------------------------------ helpers
NoVal == "-"

SeqUpTo(S, n) == UNION {[1..m -> S] : m \in 0..n}

Min(S) == CHOOSE x \in S : \A y \in S : x <= y

\* ------------------------------------------------------------------ all_available
\* limit = 120
Limit == 120

\* status_finished = "AVAILABLE"
status_finished == "AVAILABLE"

\* What a GET of one href can answer: a metadata.state, or no state field at all.
Responses == {"AVAILABLE", "BUSY", "INACTIVE", NoVal}

\* The KeyError handler counting the href as AVAILABLE.
StatusOf_MissingIsAvailable(resp) == IF resp = NoVal THEN "AVAILABLE" ELSE resp

\* try: status = ...["metadata"]["state"]  except KeyError: status = "BUSY"
StatusOf(resp) == IF resp = NoVal THEN "BUSY" ELSE resp

InitBarrierVars ==
    /\ limit = Limit
    /\ all_available = FALSE
    /\ bpc = "while"
    /\ hidx = 1
    /\ rounds = 0
    /\ sleeps = 0
    /\ okRound = {}
    /\ seen = <<>>
    /\ rawSeen = FALSE

\* all_available_while with the limit test off by one (if limit == 1).
all_available_while_OffByOne ==
    /\ bpc = "while"
    /\ IF all_available
       THEN /\ bpc' = "returned"
            /\ UNCHANGED <<all_available, sleeps, rounds, okRound, hidx>>
       ELSE /\ all_available' = TRUE
            /\ IF limit = 1
               THEN /\ bpc' = "exit1"
                    /\ UNCHANGED <<sleeps, rounds, okRound, hidx>>
               ELSE /\ sleeps' = sleeps + 1
                    /\ rounds' = rounds + 1
                    /\ okRound' = {}
                    /\ hidx' = 1
                    /\ bpc' = "for"
    /\ UNCHANGED <<hrefs, limit, seen, rawSeen, pvars>>

\* all_available_while sleeping only between two rounds, not before the first.
all_available_while_SleepBetween ==
    /\ bpc = "while"
    /\ IF all_available
       THEN /\ bpc' = "returned"
            /\ UNCHANGED <<all_available, sleeps, rounds, okRound, hidx>>
       ELSE /\ all_available' = TRUE
            /\ IF limit = 0
               THEN /\ bpc' = "exit1"
                    /\ UNCHANGED <<sleeps, rounds, okRound, hidx>>
               ELSE /\ sleeps' = IF rounds = 0 THEN sleeps ELSE sleeps + 1
                    /\ rounds' = rounds + 1
                    /\ okRound' = {}
                    /\ hidx' = 1
                    /\ bpc' = "for"
    /\ UNCHANGED <<hrefs, limit, seen, rawSeen, pvars>>

\* while not all_available: all_available = True; if limit == 0: exit(1);
\* print; time.sleep(5); for href in hrefs:
all_available_while ==
    /\ bpc = "while"
    /\ IF all_available
       THEN /\ bpc' = "returned"
            /\ UNCHANGED <<all_available, sleeps, rounds, okRound, hidx>>
       ELSE /\ all_available' = TRUE
            /\ IF limit = 0
               THEN /\ bpc' = "exit1"
                    /\ UNCHANGED <<sleeps, rounds, okRound, hidx>>
               ELSE /\ sleeps' = sleeps + 1
                    /\ rounds' = rounds + 1
                    /\ okRound' = {}
                    /\ hidx' = 1
                    /\ bpc' = "for"
    /\ UNCHANGED <<hrefs, limit, seen, rawSeen, pvars>>

\* all_available_get without the break, the last href read deciding all_available.
all_available_get_LastWins ==
    /\ bpc = "for"
    /\ hidx <= Len(hrefs)
    /\ \E resp \in Responses :
          /\ seen' = IF Len(seen) < MaxSeen THEN Append(seen, StatusOf(resp)) ELSE seen
          /\ rawSeen' = (rawSeen \/ resp = NoVal)
          /\ all_available' = (StatusOf(resp) = status_finished)
          /\ okRound' = IF StatusOf(resp) = status_finished
                        THEN okRound \cup {hidx} ELSE okRound
          /\ hidx' = hidx + 1
          /\ UNCHANGED bpc
    /\ UNCHANGED <<hrefs, limit, rounds, sleeps, pvars>>

\* One iteration of the for loop: GET the href, read its state, break when it is
\* not AVAILABLE.
all_available_get ==
    /\ bpc = "for"
    /\ hidx <= Len(hrefs)
    /\ \E resp \in Responses :
          /\ seen' = IF Len(seen) < MaxSeen THEN Append(seen, StatusOf(resp)) ELSE seen
          /\ rawSeen' = (rawSeen \/ resp = NoVal)
          /\ IF StatusOf(resp) # status_finished
             THEN /\ all_available' = FALSE
                  /\ bpc' = "dec"
                  /\ UNCHANGED <<hidx, okRound>>
             ELSE /\ okRound' = okRound \cup {hidx}
                  /\ hidx' = hidx + 1
                  /\ UNCHANGED <<all_available, bpc>>
    /\ UNCHANGED <<hrefs, limit, rounds, sleeps, pvars>>

\* limit -= 1, after the for loop ended or was left by break
all_available_dec ==
    /\ \/ bpc = "dec"
       \/ bpc = "for" /\ hidx > Len(hrefs)
    /\ limit' = limit - 1
    /\ bpc' = "while"
    /\ UNCHANGED <<hrefs, all_available, hidx, rounds, sleeps, okRound, seen, rawSeen, pvars>>

NextBarrier == all_available_while \/ all_available_get \/ all_available_dec

\* ------------------------------------------------------------------ declared configuration
\* The one server of json_files (server_names = ["web1"]).
SERVER_NAME == "web1"

VolNames == {"web1-boot", "data1"}
NicNames == {"n1", "n2"}
RuleNames == {"r", "rx"}
\* A name that no local configuration declares (a component added remotely by hand).
Undeclared == "extra"

\* A volume name that holds "-boot" without ending with it.
AllVolNames == VolNames \cup {"web1-boot2"}

\* str.endswith("-boot") on the names of the model
EndsWithBoot(n) == n = "web1-boot"

\* "-boot" in name, on the names of the model
ContainsBoot(n) == n \in {"web1-boot", "web1-boot2"}

\* The file name f"{n}.yaml"
YamlOf(n) == <<n, ".yaml">>

\* re.match(pattern, rule) matches at the start of rule: a plain name as pattern
\* matches every rule name it is a prefix of.
ReMatch(pattern, rule) == pattern = rule \/ (pattern = "r" /\ rule = "rx")

\* What a declared volume says about "imagePassword": the key is absent, its
\* value is null, or it is a password; "generated" is a password the program made
\* with random.choices.
Passwords == {"absent", "null", "given"}

\* A declared volume: {"properties": {"name": ..., "imagePassword": ...}}, and
\* whether its properties hold the key "userData".
VolDeclWith(n, p) == [name |-> n, imagePassword |-> p, userData |-> FALSE]

\* A declared volume without the key "imagePassword".
VolDecl(n) == VolDeclWith(n, "absent")

\* A declared NIC: its name and, when the key is present, its "firewallrules" names.
NicDecl(n, has, fw) == [name |-> n, hasFw |-> has, fw |-> fw]

NicDecls == {NicDecl(n, FALSE, <<>>) : n \in NicNames}
            \cup {NicDecl(n, TRUE, fw) : n \in NicNames, fw \in SeqUpTo(RuleNames, MaxRules)}

VolLists == {[x \in DOMAIN s |-> VolDecl(s[x])] : s \in SeqUpTo(VolNames, MaxVols)}
EVolLists == {<<>>} \cup {<<VolDecl(n)>> : n \in VolNames}
OptNicLists == {<<>>} \cup {<<d>> : d \in NicDecls}

\* json_files[server_name + ".json"]["nics"]
\*   + json_files[server_name + ".json"]["server"]["entities"]["nics"]["items"]
AllNics(jf) == jf.nics \o jf.enics

\* [t["properties"]["name"] for t in list]
Names(list) == [x \in DOMAIN list |-> list[x].name]

InList(n, list) == \E x \in DOMAIN list : list[x].name = n

\* len(set(rules_names)) != len(rules)
HasDuplicate(fw) == Cardinality({fw[x] : x \in DOMAIN fw}) # Len(fw)

\* ------------------------------------------------------------------ remote datacenter
\* name_to_href: the href of the first item of that name, 0 when there is none
\* (the caller then ends with exit(1)).
name_to_href(n, list) ==
    LET hit == {x \in DOMAIN list : list[x].name = n}
    IN  IF hit = {} THEN 0 ELSE list[Min(hit)].href

\* server_exists: some item of the server collection carries the name
server_exists(server_name, servers) ==
    \E x \in DOMAIN servers : servers[x].name = server_name

\* The server with a given href (GET href).
ServerAt(h) == dc[CHOOSE x \in DOMAIN dc : dc[x].href = h]

\* The remote datacenter with the server of href h replaced by new.
UpdateServer(h, new) == [x \in DOMAIN dc |-> IF dc[x].href = h THEN new ELSE dc[x]]

Remove(list, h) == SelectSeq(list, LAMBDA e : e.href # h)

\* A remote server that exists before the program starts: href 1, the listed
\* volumes, and NICs with their firewall rules.
RemoteServer(vols, nics) ==
    [href |-> 1, name |-> SERVER_NAME, boot |-> 0,
     volumes |-> [x \in DOMAIN vols |-> [href |-> 10 + x, name |-> vols[x]]],
     nics |-> [x \in DOMAIN nics |->
                 [href |-> 20 + x, name |-> nics[x].name,
                  rules |-> [y \in DOMAIN nics[x].rules |->
                               [href |-> 30 + 10 * x + y, name |-> nics[x].rules[y]]]]]]

\* ------------------------------------------------------------------ program: helpers
\* json_files[server_name + ".json"][type]
JfList(t) == IF t = "volumes" THEN json_files.volumes ELSE json_files.nics

\* json_file["server"]["entities"][type]["items"]
JfEmbedded(t) == IF t = "volumes" THEN json_files.evolumes ELSE json_files.enics

\* One entry of the history of calls.
Call(verb, kind, n, nic, decl) ==
    [verb |-> verb, kind |-> kind, name |-> n, nic |-> nic, decl |-> decl]

\* exit(1)
Exit(reason) == pc' = "exit1" /\ err' = reason

Locals == <<href, type, name, comp, nic_name, i, j, k, l, items>>

\* ------------------------------------------------------------------ program: main
\* if "SERVER" not in os.environ: ... else: ...   (the dispatch of the main block)
main ==
    /\ pc = "main"
    /\ LET cnt == Cardinality({x \in {"VOLUME", "NIC", "FIREWALLRULE"} : env[x] # NoVal})
           exists == server_exists(env.SERVER, dc)
           known == env.SERVER = SERVER_NAME
       IN
       IF env.SERVER = NoVal
       THEN /\ top' = env.ACTION
            /\ pc' = IF env.ACTION = "create" THEN "create" ELSE "math_func"
            /\ UNCHANGED <<err, Locals>>
       ELSE IF cnt > 1 \/ ~known
       THEN /\ Exit("Usage")
            /\ UNCHANGED <<top, Locals>>
       ELSE IF env.ACTION = "create" /\ ~exists
       THEN /\ top' = "create"
            /\ pc' = "create"
            /\ UNCHANGED <<err, Locals>>
       ELSE IF env.ACTION = "create" /\ (env.VOLUME # NoVal \/ env.NIC # NoVal)
       THEN /\ top' = "attach"
            /\ href' = name_to_href(env.SERVER, dc)
            /\ type' = IF env.VOLUME # NoVal THEN "volumes" ELSE "nics"
            /\ name' = IF env.VOLUME # NoVal THEN env.VOLUME ELSE env.NIC
            /\ pc' = "attach_single"
            /\ UNCHANGED <<err, comp, nic_name, i, j, k, l, items>>
       ELSE IF env.ACTION = "create" /\ env.FIREWALLRULE # NoVal
       THEN /\ top' = "fwcreate"
            /\ i' = 1
            /\ j' = 1
            /\ pc' = "main_fwrules_create"
            /\ UNCHANGED <<err, href, type, name, comp, nic_name, k, l, items>>
       ELSE IF env.ACTION = "create" \/ ~exists
       THEN /\ Exit("Usage")
            /\ UNCHANGED <<top, Locals>>
       ELSE /\ top' = IF env.VOLUME # NoVal \/ env.NIC # NoVal THEN "detach"
                      ELSE IF env.FIREWALLRULE # NoVal THEN "fwdelete" ELSE "delete"
            /\ type' = IF env.VOLUME # NoVal THEN "volumes"
                       ELSE IF env.NIC # NoVal THEN "nics" ELSE type
            /\ name' = IF env.VOLUME # NoVal THEN env.VOLUME
                       ELSE IF env.NIC # NoVal THEN env.NIC ELSE name
            /\ pc' = "math_func"
            /\ UNCHANGED <<err, href, comp, nic_name, i, j, k, l, items>>
    /\ UNCHANGED <<bvars, sent, other, fixed, runs, confirmed, json_files, dc, nextHref, env, log>>

\* What the operator can answer to the two prompts of math_func.
Answers == {"yes_right", "yes_wrong", "no", "help", "invalid"}

\* math_func that goes on after a wrong result.
math_func_WrongAccepted ==
    /\ pc = "math_func"
    /\ \E answer \in Answers :
          IF answer \in {"help", "invalid"}
          THEN UNCHANGED <<pc, err, i, j, confirmed>>
          ELSE IF answer \in {"yes_right", "yes_wrong"}
          THEN /\ pc' = IF top = "delete" THEN "delete"
                        ELSE IF top = "detach" THEN "main_detach"
                        ELSE "main_fwrules_delete"
               /\ i' = 1
               /\ j' = 1
               /\ confirmed' = (answer = "yes_right")
               /\ UNCHANGED err
          ELSE /\ Exit("Declined")
               /\ UNCHANGED <<i, j, confirmed>>
    /\ UNCHANGED <<bvars, sent, other, fixed, runs, json_files, dc, nextHref, env, top, href, type, name,
                   comp, nic_name, k, l, items, log>>

\* math_func: the confirmation before anything is deleted. "help" and an invalid
\* answer ask again; "no" and a wrong result end with exit(1).
math_func ==
    /\ pc = "math_func"
    /\ \E answer \in Answers :
          IF answer \in {"help", "invalid"}
          THEN UNCHANGED <<pc, err, i, j, confirmed>>
          ELSE IF answer = "yes_right"
          THEN /\ pc' = IF top = "delete" THEN "delete"
                        ELSE IF top = "detach" THEN "main_detach"
                        ELSE "main_fwrules_delete"
               /\ i' = 1
               /\ j' = 1
               /\ confirmed' = TRUE
               /\ UNCHANGED err
          ELSE /\ Exit("Declined")
               /\ UNCHANGED <<i, j, confirmed>>
    /\ UNCHANGED <<bvars, sent, other, fixed, runs, json_files, dc, nextHref, env, top, href, type, name,
                   comp, nic_name, k, l, items, log>>

\* ------------------------------------------------------------------ program: create
\* create without its guard.
create_NoGuard ==
    /\ pc = "create"
    /\ pc' = "create_single"
    /\ UNCHANGED <<bvars, sent, other, fixed, runs, confirmed, json_files, dc, nextHref, env, err, top, Locals, log>>

\* create: if server_exists(server_name, api_url, auth_headers): exit(1)
create ==
    /\ pc = "create"
    /\ IF server_exists(SERVER_NAME, dc)
       THEN Exit("AlreadyExists")
       ELSE pc' = "create_single" /\ UNCHANGED err
    /\ UNCHANGED <<bvars, sent, other, fixed, runs, confirmed, json_files, dc, nextHref, env, top, Locals, log>>

\* The server the remote side creates from the payload server_deepcopy: the
\* embedded volumes and NICs (the NICs without their "firewallrules").
NewServer(h) ==
    LET ev == json_files.evolumes
        en == json_files.enics
    IN  [href |-> h, name |-> SERVER_NAME, boot |-> 0,
         volumes |-> [x \in DOMAIN ev |-> [href |-> h + x, name |-> ev[x].name]],
         nics |-> [x \in DOMAIN en |->
                     [href |-> h + Len(ev) + x, name |-> en[x].name, rules |-> <<>>]]]

\* create_single, lines 228-238: the loop that replaces a null imagePassword of the
\* embedded volumes of server_deepcopy. The whole loop stands in one try: the
\* KeyError of the first volume without the key ends it (except KeyError: pass),
\* and the volumes after that one are left as declared.
WithPasswords(ev) ==
    LET noKey == {x \in DOMAIN ev : ev[x].imagePassword = "absent"}
        stop == IF noKey = {} THEN Len(ev) + 1 ELSE Min(noKey)
    IN  [x \in DOMAIN ev |->
           IF x < stop /\ ev[x].imagePassword = "null"
           THEN [ev[x] EXCEPT !.imagePassword = "generated"]
           ELSE ev[x]]

\* create_single, lines 240-246: userData for every embedded volume with "-boot" in
\* its name whose file f"{name}.yaml" is in the cloud-configs directory.
WithUserData(ev) ==
    [x \in DOMAIN ev |->
       IF YamlOf(ev[x].name) \in cloud_configs /\ ContainsBoot(ev[x].name)
       THEN [ev[x] EXCEPT !.userData = TRUE]
       ELSE ev[x]]

\* The volumes of one posted payload.
Payload(kind, volumes) == [kind |-> kind, volumes |-> volumes]

\* create_single: requests.post(api_url, json=server_deepcopy); href = res["href"]
create_single ==
    /\ pc = "create_single"
    /\ dc' = Append(dc, NewServer(nextHref))
    /\ href' = nextHref
    /\ nextHref' = nextHref + 1 + Len(json_files.evolumes) + Len(json_files.enics)
    /\ log' = Append(log, Call("POST", "server", SERVER_NAME, NoVal, 0))
    /\ sent' = Append(sent, Payload("server", WithUserData(WithPasswords(json_files.evolumes))))
    /\ pc' = "create_single_wait"
    /\ UNCHANGED <<bvars, other, fixed, runs, confirmed, json_files, env, err, top, type, name, comp, nic_name,
                   i, j, k, l, items>>

\* attach, with create going on to fwrules_create after the volumes (the NICs
\* forgotten).
attach_NicsForgotten ==
    /\ pc = "attach"
    /\ IF i <= Len(JfList(type))
       THEN /\ name' = JfList(type)[i].name
            /\ pc' = "attach_single"
            /\ UNCHANGED <<type, i, j>>
       ELSE /\ pc' = "fwrules_create"
            /\ i' = 1
            /\ j' = 1
            /\ UNCHANGED <<type, name>>
    /\ UNCHANGED <<bvars, sent, other, fixed, runs, confirmed, json_files, dc, nextHref, env, err, top, href, comp,
                   nic_name, k, l, items, log>>

\* attach: for t in json_files[server_name + ".json"][type]: attach_single(...);
\* create calls it for "volumes", then for "nics", then calls fwrules_create.
attach ==
    /\ pc = "attach"
    /\ IF i <= Len(JfList(type))
       THEN /\ name' = JfList(type)[i].name
            /\ pc' = "attach_single"
            /\ UNCHANGED <<type, i, j>>
       ELSE IF type = "volumes"
       THEN /\ type' = "nics"
            /\ i' = 1
            /\ UNCHANGED <<pc, name, j>>
       ELSE /\ pc' = "fwrules_create"
            /\ i' = 1
            /\ j' = 1
            /\ UNCHANGED <<type, name>>
    /\ UNCHANGED <<bvars, sent, other, fixed, runs, confirmed, json_files, dc, nextHref, env, err, top, href, comp,
                   nic_name, k, l, items, log>>

\* attach_single with the server check only (the name not looked up among the
\* declared components).
attach_single_NoNameCheck ==
    /\ pc = "attach_single"
    /\ IF ~server_exists(SERVER_NAME, dc)
       THEN Exit("NoServer")
       ELSE pc' = "attach_single_post" /\ UNCHANGED err
    /\ UNCHANGED <<bvars, sent, other, fixed, runs, confirmed, json_files, dc, nextHref, env, top, Locals, log>>

\* attach_single, lines 293-305: the guard
attach_single ==
    /\ pc = "attach_single"
    /\ IF ~server_exists(SERVER_NAME, dc)
       THEN Exit("NoServer")
       ELSE IF ~InList(name, JfList(type))
       THEN Exit("NotDeclared")
       ELSE pc' = "attach_single_post" /\ UNCHANGED err
    /\ UNCHANGED <<bvars, sent, other, fixed, runs, confirmed, json_files, dc, nextHref, env, top, Locals, log>>

\* attach_single, lines 305-325: idx = components.index(name), and what the function
\* writes into json_file[type][idx]["properties"] before the POST: a generated
\* password where imagePassword is None, and userData for a volume with "-boot" in
\* its name when f"{server_name}-boot.yaml" is in the cloud-configs directory.
Prepared ==
    LET idx == Min({x \in DOMAIN JfList(type) : JfList(type)[x].name = name})
        v == JfList(type)[idx]
    IN  IF type # "volumes" THEN json_files
        ELSE [json_files EXCEPT !.volumes[idx] =
                [v EXCEPT !.imagePassword = IF @ = "null" THEN "generated" ELSE @,
                          !.userData = IF YamlOf("web1-boot") \in cloud_configs
                                          /\ ContainsBoot(name)
                                       THEN TRUE ELSE @]]

\* components.index(name)
Index(n, list) == Min({x \in DOMAIN list : list[x].name = n})

\* attach_single, lines 327-333: json={"properties": json_file[type][idx]["properties"]}
AttachPayload ==
    Payload(type, IF type = "volumes"
                  THEN <<Prepared.volumes[Index(name, json_files.volumes)]>>
                  ELSE <<>>)

\* attach_single without the all_available call between the POST and the PATCH.
attach_single_post_NoBarrier ==
    /\ pc = "attach_single_post"
    /\ LET s == dc[CHOOSE x \in DOMAIN dc : dc[x].href = href]
           c == IF type = "volumes"
                THEN [href |-> nextHref, name |-> name]
                ELSE [href |-> nextHref, name |-> name, rules |-> <<>>]
       IN  dc' = [x \in DOMAIN dc |->
                    IF dc[x].href # href THEN dc[x]
                    ELSE IF type = "volumes"
                    THEN [s EXCEPT !.volumes = Append(@, c)]
                    ELSE [s EXCEPT !.nics = Append(@, c)]]
    /\ comp' = nextHref
    /\ nextHref' = nextHref + 1
    /\ log' = Append(log, Call("POST", type, name, NoVal, 0))
    /\ pc' = "attach_single_patch"
    /\ json_files' = Prepared
    /\ sent' = Append(sent, AttachPayload)
    /\ UNCHANGED <<bvars, other, fixed, runs, confirmed, env, err, top, href, type, name, nic_name,
                   i, j, k, l, items>>

\* attach_single, lines 305-333: json_file[type][idx] prepared in place, then
\* requests.post(href + "/" + type, json={"properties": json_file[type][idx]["properties"]})
attach_single_post ==
    /\ pc = "attach_single_post"
    /\ LET s == ServerAt(href)
           c == IF type = "volumes"
                THEN [href |-> nextHref, name |-> name]
                ELSE [href |-> nextHref, name |-> name, rules |-> <<>>]
       IN  dc' = UpdateServer(href,
                   IF type = "volumes"
                   THEN [s EXCEPT !.volumes = Append(@, c)]
                   ELSE [s EXCEPT !.nics = Append(@, c)])
    /\ comp' = nextHref
    /\ nextHref' = nextHref + 1
    /\ log' = Append(log, Call("POST", type, name, NoVal, 0))
    /\ pc' = "attach_single_wait1"
    /\ json_files' = Prepared
    /\ sent' = Append(sent, AttachPayload)
    /\ UNCHANGED <<bvars, other, fixed, runs, confirmed, env, err, top, href, type, name, nic_name,
                   i, j, k, l, items>>

\* attach_single with the boot device PATCH for every volume that has "-boot" in
\* its name.
attach_single_patch_ContainsBoot ==
    /\ pc = "attach_single_patch"
    /\ IF type = "volumes" /\ ContainsBoot(name)
       THEN /\ dc' = UpdateServer(href, [ServerAt(href) EXCEPT !.boot = comp])
            /\ log' = Append(log, Call("PATCH", "server", name, NoVal, 0))
       ELSE UNCHANGED <<dc, log>>
    /\ pc' = "attach_single_wait2"
    /\ UNCHANGED <<bvars, sent, other, fixed, runs, confirmed, json_files, nextHref, env, err, top, Locals>>

\* attach_single without its last all_available call when main called it.
attach_single_patch_NoFinalWait ==
    /\ pc = "attach_single_patch"
    /\ IF type = "volumes" /\ EndsWithBoot(name)
       THEN /\ dc' = UpdateServer(href, [ServerAt(href) EXCEPT !.boot = comp])
            /\ log' = Append(log, Call("PATCH", "server", name, NoVal, 0))
       ELSE UNCHANGED <<dc, log>>
    /\ pc' = IF top = "create" THEN "attach_single_wait2" ELSE "done"
    /\ UNCHANGED <<bvars, sent, other, fixed, runs, confirmed, json_files, nextHref, env, err, top, Locals>>

\* attach_single, lines 336-340: the boot device PATCH, for a volume whose name
\* ends with "-boot"
attach_single_patch ==
    /\ pc = "attach_single_patch"
    /\ IF type = "volumes" /\ EndsWithBoot(name)
       THEN /\ dc' = UpdateServer(href, [ServerAt(href) EXCEPT !.boot = comp])
            /\ log' = Append(log, Call("PATCH", "server", name, NoVal, 0))
       ELSE UNCHANGED <<dc, log>>
    /\ pc' = "attach_single_wait2"
    /\ UNCHANGED <<bvars, sent, other, fixed, runs, confirmed, json_files, nextHref, env, err, top, Locals>>

\* ------------------------------------------------------------------ program: firewall rules
\* fwrules_create: for nic in nics: if "firewallrules" in nic:
\*     for firewallrule in nic["firewallrules"]: fwrules_create_single(...)
fwrules_create ==
    /\ pc = "fwrules_create"
    /\ LET nics == AllNics(json_files)
       IN  IF i > Len(nics)
           THEN /\ pc' = "done"
                /\ UNCHANGED <<i, j, name, nic_name>>
           ELSE IF ~nics[i].hasFw \/ j > Len(nics[i].fw)
           THEN /\ i' = i + 1
                /\ j' = 1
                /\ UNCHANGED <<pc, name, nic_name>>
           ELSE /\ name' = nics[i].fw[j]
                /\ nic_name' = nics[i].name
                /\ pc' = "fwrules_create_single"
                /\ UNCHANGED <<i, j>>
    /\ UNCHANGED <<bvars, sent, other, fixed, runs, confirmed, json_files, dc, nextHref, env, err, top, href, type, comp,
                   k, l, items, log>>

\* main, lines 740-765: the same loops, for the rules re.match(FIREWALLRULE) accepts
main_fwrules_create ==
    /\ pc = "main_fwrules_create"
    /\ LET nics == AllNics(json_files)
       IN  IF i > Len(nics)
           THEN /\ pc' = "done"
                /\ UNCHANGED <<i, j, name, nic_name>>
           ELSE IF ~nics[i].hasFw \/ j > Len(nics[i].fw)
           THEN /\ i' = i + 1
                /\ j' = 1
                /\ UNCHANGED <<pc, name, nic_name>>
           ELSE IF ~ReMatch(env.FIREWALLRULE, nics[i].fw[j])
           THEN /\ j' = j + 1
                /\ UNCHANGED <<pc, i, name, nic_name>>
           ELSE /\ name' = nics[i].fw[j]
                /\ nic_name' = nics[i].name
                /\ pc' = "fwrules_create_single"
                /\ UNCHANGED <<i, j>>
    /\ UNCHANGED <<bvars, sent, other, fixed, runs, confirmed, json_files, dc, nextHref, env, err, top, href, type, comp,
                   k, l, items, log>>

\* fwrules_create_single, lines 465-470: the guard
fwrules_create_single ==
    /\ pc = "fwrules_create_single"
    /\ IF ~server_exists(SERVER_NAME, dc)
       THEN Exit("NoServer") /\ UNCHANGED k
       ELSE pc' = "fwrules_create_single_nic" /\ k' = 1 /\ UNCHANGED err
    /\ UNCHANGED <<bvars, sent, other, fixed, runs, confirmed, json_files, dc, nextHref, env, top, href, type, name, comp,
                   nic_name, i, j, l, items, log>>

\* fwrules_create_single without the duplicate check.
fwrules_create_single_nic_NoCheck ==
    /\ pc = "fwrules_create_single_nic"
    /\ LET nics == AllNics(json_files)
       IN  IF k > Len(nics)
           THEN /\ pc' = IF top = "fwcreate" THEN "main_fwrules_create" ELSE "fwrules_create"
                /\ j' = j + 1
                /\ UNCHANGED <<err, k, l>>
           ELSE IF nics[k].name # nic_name
           THEN /\ k' = k + 1
                /\ UNCHANGED <<pc, err, j, l>>
           ELSE IF ~nics[k].hasFw
           THEN /\ Exit("KeyError")
                /\ UNCHANGED <<j, k, l>>
           ELSE /\ pc' = "fwrules_create_single_rule"
                /\ l' = 1
                /\ UNCHANGED <<err, j, k>>
    /\ UNCHANGED <<bvars, sent, other, fixed, runs, confirmed, json_files, dc, nextHref, env, top, href, type, name, comp,
                   nic_name, i, items, log>>

\* fwrules_create_single, lines 475-484: for nic in nics: if nic_name == ...:
\* rules = nic["firewallrules"]; the duplicate check
fwrules_create_single_nic ==
    /\ pc = "fwrules_create_single_nic"
    /\ LET nics == AllNics(json_files)
       IN  IF k > Len(nics)
           THEN /\ pc' = IF top = "fwcreate" THEN "main_fwrules_create" ELSE "fwrules_create"
                /\ j' = j + 1
                /\ UNCHANGED <<err, k, l>>
           ELSE IF nics[k].name # nic_name
           THEN /\ k' = k + 1
                /\ UNCHANGED <<pc, err, j, l>>
           ELSE IF ~nics[k].hasFw
           THEN /\ Exit("KeyError")
                /\ UNCHANGED <<j, k, l>>
           ELSE IF HasDuplicate(nics[k].fw)
           THEN /\ Exit("DuplicateName")
                /\ UNCHANGED <<j, k, l>>
           ELSE /\ pc' = "fwrules_create_single_rule"
                /\ l' = 1
                /\ UNCHANGED <<err, j, k>>
    /\ UNCHANGED <<bvars, sent, other, fixed, runs, confirmed, json_files, dc, nextHref, env, top, href, type, name, comp,
                   nic_name, i, items, log>>

\* fwrules_create_single, lines 485-499: for rule in rules: if the name matches:
\* the two name_to_href lookups and requests.post(fw_href, json=rule)
fwrules_create_single_rule ==
    /\ pc = "fwrules_create_single_rule"
    /\ LET rules == AllNics(json_files)[k].fw
           server_href == name_to_href(SERVER_NAME, dc)
           nic_href == IF server_href = 0 THEN 0
                       ELSE name_to_href(nic_name, ServerAt(server_href).nics)
           s == ServerAt(server_href)
       IN  IF l > Len(rules)
           THEN /\ pc' = "fwrules_create_single_nic"
                /\ k' = k + 1
                /\ UNCHANGED <<err, l, dc, nextHref, log>>
           ELSE IF rules[l] # name
           THEN /\ l' = l + 1
                /\ UNCHANGED <<pc, err, k, dc, nextHref, log>>
           ELSE IF nic_href = 0
           THEN /\ Exit("NotFound")
                /\ UNCHANGED <<k, l, dc, nextHref, log>>
           ELSE /\ dc' = UpdateServer(server_href,
                           [s EXCEPT !.nics =
                              [x \in DOMAIN s.nics |->
                                 IF s.nics[x].href = nic_href
                                 THEN [s.nics[x] EXCEPT !.rules =
                                         Append(@, [href |-> nextHref, name |-> name])]
                                 ELSE s.nics[x]]])
                /\ nextHref' = nextHref + 1
                /\ log' = Append(log, Call("POST", "firewallrules", name, nic_name, k))
                /\ pc' = "fwrules_create_single_wait"
                /\ UNCHANGED <<err, k, l>>
    /\ UNCHANGED <<bvars, sent, other, fixed, runs, confirmed, json_files, env, top, href, type, name, comp, nic_name,
                   i, j, items>>

\* main, lines 805-830: the loops over the declared rules re.match(FIREWALLRULE)
\* accepts, calling fwrules_delete_single
main_fwrules_delete ==
    /\ pc = "main_fwrules_delete"
    /\ LET nics == AllNics(json_files)
       IN  IF i > Len(nics)
           THEN /\ pc' = "done"
                /\ UNCHANGED <<i, j, name, nic_name>>
           ELSE IF ~nics[i].hasFw \/ j > Len(nics[i].fw)
           THEN /\ i' = i + 1
                /\ j' = 1
                /\ UNCHANGED <<pc, name, nic_name>>
           ELSE IF ~ReMatch(env.FIREWALLRULE, nics[i].fw[j])
           THEN /\ j' = j + 1
                /\ UNCHANGED <<pc, i, name, nic_name>>
           ELSE /\ name' = nics[i].fw[j]
                /\ nic_name' = nics[i].name
                /\ pc' = "fwrules_delete_single"
                /\ UNCHANGED <<i, j>>
    /\ UNCHANGED <<bvars, sent, other, fixed, runs, confirmed, json_files, dc, nextHref, env, err, top, href, type, comp,
                   k, l, items, log>>

\* fwrules_delete_single, lines 540-544: the guard, the two lookups and the GET of
\* the NIC's firewall rules
fwrules_delete_single ==
    /\ pc = "fwrules_delete_single"
    /\ LET server_href == name_to_href(SERVER_NAME, dc)
           nics == ServerAt(server_href).nics
           nic_href == name_to_href(nic_name, nics)
           nic == nics[CHOOSE x \in DOMAIN nics : nics[x].href = nic_href]
       IN  IF ~server_exists(SERVER_NAME, dc)
           THEN Exit("NoServer") /\ UNCHANGED <<items, l>>
           ELSE IF nic_href = 0
           THEN Exit("NotFound") /\ UNCHANGED <<items, l>>
           ELSE /\ items' = nic.rules
                /\ l' = 1
                /\ pc' = "fwrules_delete_single_item"
                /\ UNCHANGED err
    /\ UNCHANGED <<bvars, sent, other, fixed, runs, confirmed, json_files, dc, nextHref, env, top, href, type, name, comp,
                   nic_name, i, j, k, log>>

\* The remote datacenter without the firewall rule of href h.
WithoutRule(h) ==
    [x \in DOMAIN dc |->
       [dc[x] EXCEPT !.nics =
          [y \in DOMAIN dc[x].nics |->
             [dc[x].nics[y] EXCEPT !.rules = Remove(@, h)]]]]

\* fwrules_delete_single, lines 545-553: for item in fw_rules["items"]: if the name
\* is the one asked for: requests.delete(item["href"]); after the loop name_to_href
fwrules_delete_single_item ==
    /\ pc = "fwrules_delete_single_item"
    /\ IF l > Len(items)
       THEN /\ pc' = "fwrules_delete_single_wait"
            /\ UNCHANGED <<l, dc, log>>
       ELSE IF items[l].name = name
       THEN /\ dc' = WithoutRule(items[l].href)
            /\ log' = Append(log, Call("DELETE", "firewallrules", name, nic_name, 0))
            /\ l' = l + 1
            /\ UNCHANGED pc
       ELSE /\ l' = l + 1
            /\ UNCHANGED <<pc, dc, log>>
    /\ UNCHANGED <<bvars, sent, other, fixed, runs, confirmed, json_files, nextHref, env, err, top, href, type, name, comp,
                   nic_name, i, j, k, items>>

\* ------------------------------------------------------------------ program: delete
\* delete, lines 442-445: the guard, server_href and server_object
delete ==
    /\ pc = "delete"
    /\ IF ~server_exists(SERVER_NAME, dc)
       THEN Exit("NoServer") /\ UNCHANGED href
       ELSE /\ href' = name_to_href(SERVER_NAME, dc)
            /\ pc' = "delete_wait"
            /\ UNCHANGED err
    /\ UNCHANGED <<bvars, sent, other, fixed, runs, confirmed, json_files, dc, nextHref, env, top, type, name, comp,
                   nic_name, i, j, k, l, items, log>>

\* The components of one type attached to a remote server (GET api_url/type).
Attached(s, t) == IF t = "volumes" THEN s.volumes ELSE s.nics

\* detach, lines 384-387: items = the components attached remotely right now
detach ==
    /\ pc = "detach"
    /\ items' = [x \in DOMAIN Attached(ServerAt(href), type) |->
                   [href |-> Attached(ServerAt(href), type)[x].href,
                    name |-> Attached(ServerAt(href), type)[x].name]]
    /\ i' = 1
    /\ pc' = "detach_loop"
    /\ UNCHANGED <<bvars, sent, other, fixed, runs, confirmed, json_files, dc, nextHref, env, err, top, href, type, name,
                   comp, nic_name, j, k, l, log>>

\* detach, with delete going on to delete_single after the NICs (the volumes
\* forgotten).
detach_loop_VolumesForgotten ==
    /\ pc = "detach_loop"
    /\ IF i <= Len(items)
       THEN /\ comp' = items[i].href
            /\ name' = items[i].name
            /\ pc' = "detach_single"
            /\ UNCHANGED type
       ELSE /\ pc' = "delete_single"
            /\ UNCHANGED <<comp, name, type>>
    /\ UNCHANGED <<bvars, sent, other, fixed, runs, confirmed, json_files, dc, nextHref, env, err, top, href, nic_name,
                   i, j, k, l, items, log>>

\* detach, lines 388-393: for item in items: detach_single(item_href, ...);
\* delete calls detach for "nics", then for "volumes", then delete_single.
detach_loop ==
    /\ pc = "detach_loop"
    /\ IF i <= Len(items)
       THEN /\ comp' = items[i].href
            /\ name' = items[i].name
            /\ pc' = "detach_single"
            /\ UNCHANGED type
       ELSE IF type = "nics"
       THEN /\ type' = "volumes"
            /\ pc' = "detach"
            /\ UNCHANGED <<comp, name>>
       ELSE /\ pc' = "delete_single"
            /\ UNCHANGED <<comp, name, type>>
    /\ UNCHANGED <<bvars, sent, other, fixed, runs, confirmed, json_files, dc, nextHref, env, err, top, href, nic_name,
                   i, j, k, l, items, log>>

\* main, lines 770-803: server_href and item_href by name, for detach_single
main_detach ==
    /\ pc = "main_detach"
    /\ LET server_href == name_to_href(env.SERVER, dc)
           item_href == IF server_href = 0 THEN 0
                        ELSE name_to_href(name, Attached(ServerAt(server_href), type))
       IN  IF item_href = 0
           THEN Exit("NotFound") /\ UNCHANGED <<href, comp>>
           ELSE /\ href' = server_href
                /\ comp' = item_href
                /\ pc' = "detach_single"
                /\ UNCHANGED err
    /\ UNCHANGED <<bvars, sent, other, fixed, runs, confirmed, json_files, dc, nextHref, env, top, type, name, nic_name,
                   i, j, k, l, items, log>>

\* detach_single with the server check only (the name not looked up among the
\* declared components).
detach_single_NoNameCheck ==
    /\ pc = "detach_single"
    /\ IF ~server_exists(SERVER_NAME, dc)
       THEN Exit("NoServer")
       ELSE pc' = "detach_single_delete" /\ UNCHANGED err
    /\ UNCHANGED <<bvars, sent, other, fixed, runs, confirmed, json_files, dc, nextHref, env, top, Locals, log>>

\* detach_single, lines 410-423: the guard
detach_single ==
    /\ pc = "detach_single"
    /\ IF ~server_exists(SERVER_NAME, dc)
       THEN Exit("NoServer")
       ELSE IF ~InList(name, JfList(type) \o JfEmbedded(type))
       THEN Exit("NotDeclared")
       ELSE pc' = "detach_single_delete" /\ UNCHANGED err
    /\ UNCHANGED <<bvars, sent, other, fixed, runs, confirmed, json_files, dc, nextHref, env, top, Locals, log>>

\* The remote datacenter without the volume or NIC of href h.
WithoutComponent(h) ==
    [x \in DOMAIN dc |->
       [dc[x] EXCEPT !.volumes = Remove(@, h), !.nics = Remove(@, h)]]

\* detach_single, lines 424-426: requests.delete(href); name_to_href(server_name)
detach_single_delete ==
    /\ pc = "detach_single_delete"
    /\ dc' = WithoutComponent(comp)
    /\ log' = Append(log, Call("DELETE", type, name, NoVal, 0))
    /\ pc' = "detach_single_wait"
    /\ UNCHANGED <<bvars, sent, other, fixed, runs, confirmed, json_files, nextHref, env, err, top, Locals>>

\* delete_single: requests.delete(server_object["href"])
delete_single ==
    /\ pc = "delete_single"
    /\ dc' = Remove(dc, href)
    /\ log' = Append(log, Call("DELETE", "server", SERVER_NAME, NoVal, 0))
    /\ pc' = "done"
    /\ UNCHANGED <<bvars, sent, other, fixed, runs, confirmed, json_files, nextHref, env, err, top, Locals>>

\* ------------------------------------------------------------------ program: the barrier
\* The places where the program calls all_available([server href]).
WaitPcs == {"create_single_wait", "attach_single_wait1", "attach_single_wait2",
            "delete_wait", "detach_single_wait", "fwrules_create_single_wait",
            "fwrules_delete_single_wait"}

\* Where the program goes on when all_available returns.
AfterWait ==
    CASE pc = "create_single_wait" -> "attach"
      [] pc = "attach_single_wait1" -> "attach_single_patch"
      [] pc = "attach_single_wait2" -> IF top = "create" THEN "attach" ELSE "done"
      [] pc = "delete_wait" -> "detach"
      [] pc = "detach_single_wait" -> IF top = "delete" THEN "detach_loop" ELSE "done"
      [] pc = "fwrules_create_single_wait" -> "fwrules_create_single_rule"
      [] pc = "fwrules_delete_single_wait" -> "main_fwrules_delete"

\* A call of all_available by the program: it either returns (every href was
\* AVAILABLE in one round) or ends the program with exit(1) (limit reached).
all_available_call ==
    /\ pc \in WaitPcs
    /\ \E result \in {"returned", "exit1"} :
          IF result = "exit1"
          THEN /\ Exit("Timeout")
               /\ UNCHANGED <<type, i, j, l, log>>
          ELSE /\ pc' = AfterWait
               /\ log' = Append(log, Call("BARRIER", "server", SERVER_NAME, NoVal, 0))
               /\ type' = IF pc = "create_single_wait" THEN "volumes"
                          ELSE IF pc = "delete_wait" THEN "nics" ELSE type
               /\ i' = IF pc = "create_single_wait" THEN 1
                       ELSE IF pc \in {"attach_single_wait2", "detach_single_wait"}
                       THEN i + 1 ELSE i
               /\ j' = IF pc = "fwrules_delete_single_wait" THEN j + 1 ELSE j
               /\ l' = IF pc = "fwrules_create_single_wait" THEN l + 1 ELSE l
               /\ UNCHANGED err
    /\ UNCHANGED <<bvars, sent, other, fixed, runs, confirmed, json_files, dc, nextHref, env, top, href, name, comp,
                   nic_name, k, items>>

\* ------------------------------------------------------------------ initial states
Env(action, server, volume, nic, rule) ==
    [ACTION |-> action, SERVER |-> server, VOLUME |-> volume, NIC |-> nic,
     FIREWALLRULE |-> rule]

Config(volumes, evolumes, nics, enics) ==
    [volumes |-> volumes, evolumes |-> evolumes, nics |-> nics, enics |-> enics]

\* A remote NIC before the program starts.
RemoteNic(n, rules) == [name |-> n, rules |-> rules]

\* The program at the start of the main block, nothing called yet.
InitLocals ==
    /\ sent = <<>>
    /\ runs = 1
    /\ confirmed = FALSE
    /\ nextHref = 100
    /\ pc = "main"
    /\ err = NoVal
    /\ top = NoVal
    /\ href = 0
    /\ type = NoVal
    /\ name = NoVal
    /\ comp = 0
    /\ nic_name = NoVal
    /\ i = 1 /\ j = 1 /\ k = 1 /\ l = 1
    /\ items = <<>>
    /\ log = <<>>

\* ACTION=create, every declaration of NICs and firewall rules, in both lists.
InitCreateNics ==
    /\ cloud_configs = {}
    /\ json_files \in {Config(<<VolDecl("web1-boot")>>, <<>>, n, e) :
                          n \in OptNicLists, e \in OptNicLists}
    /\ env \in {Env("create", NoVal, NoVal, NoVal, NoVal),
                Env("create", SERVER_NAME, NoVal, NoVal, NoVal)}
               \cup {Env("create", SERVER_NAME, NoVal, NoVal, r) : r \in RuleNames}
    /\ dc \in {<<>>, <<RemoteServer(<<>>, <<RemoteNic("n1", <<>>), RemoteNic("n2", <<>>)>>)>>}

\* ACTION=create, every declaration of volumes.
InitCreateVolumes ==
    /\ cloud_configs = {}
    /\ json_files \in {Config(v, e, <<NicDecl("n1", TRUE, <<"r">>)>>, <<>>) :
                          v \in VolLists, e \in EVolLists}
    /\ env \in {Env("create", NoVal, NoVal, NoVal, NoVal),
                Env("create", SERVER_NAME, NoVal, NoVal, NoVal),
                Env("create", "other", NoVal, NoVal, NoVal),
                Env("create", SERVER_NAME, "data1", "n1", NoVal)}
               \cup {Env("create", SERVER_NAME, v, NoVal, NoVal) : v \in VolNames}
               \cup {Env("create", SERVER_NAME, NoVal, n, NoVal) : n \in NicNames}
    /\ dc \in {<<>>, <<RemoteServer(<<>>, <<>>)>>,
               <<RemoteServer(<<"web1-boot">>, <<RemoteNic("n1", <<>>)>>)>>}

\* ACTION=create of the server or of one volume, every declaration of standalone
\* volumes with their imagePassword, with and without the boot template file.
InitAttachVolumes ==
    /\ cloud_configs \in {{}, {YamlOf("web1-boot")}}
    /\ json_files \in {Config(v, e, <<>>, <<>>) :
                          v \in SeqUpTo({VolDeclWith(n, p) : n \in AllVolNames, p \in Passwords},
                                        MaxVols),
                          e \in {<<>>, <<VolDeclWith("web1-boot", "null")>>}}
    /\ \/ env = Env("create", NoVal, NoVal, NoVal, NoVal) /\ dc = <<>>
       \/ /\ env \in {Env("create", SERVER_NAME, v, NoVal, NoVal) : v \in AllVolNames}
          /\ dc = <<RemoteServer(<<>>, <<>>)>>

\* ACTION=create of the server, every declaration of embedded volumes with their
\* imagePassword, and every set of template files.
InitCreatePasswords ==
    /\ cloud_configs \in SUBSET {YamlOf(n) : n \in AllVolNames}
    /\ json_files \in {Config(<<>>, e, <<>>, <<>>) :
                          e \in SeqUpTo({VolDeclWith(n, p) : n \in AllVolNames, p \in Passwords},
                                        MaxVols)}
    /\ env = Env("create", NoVal, NoVal, NoVal, NoVal)
    /\ dc = <<>>

\* ACTION=delete of a server or of one volume or NIC, every set of attached
\* components, declared or not.
InitDelete ==
    /\ cloud_configs = {}
    /\ json_files \in {Config(v, e, <<NicDecl("n1", TRUE, <<"r">>)>>, <<>>) :
                          v \in VolLists, e \in EVolLists}
    /\ env \in {Env("delete", NoVal, NoVal, NoVal, NoVal),
                Env("delete", SERVER_NAME, NoVal, NoVal, NoVal)}
               \cup {Env("delete", SERVER_NAME, v, NoVal, NoVal) :
                        v \in VolNames \cup {Undeclared}}
               \cup {Env("delete", SERVER_NAME, NoVal, n, NoVal) : n \in {"n1", Undeclared}}
    /\ dc \in {<<>>}
              \cup {<<RemoteServer(v, n)>> :
                      v \in SeqUpTo(VolNames \cup {Undeclared}, MaxVols),
                      n \in {<<>>} \cup {<<RemoteNic(x, <<>>)>> : x \in {"n1", Undeclared}}
                               \cup {<<RemoteNic("n1", <<>>), RemoteNic("n2", <<>>)>>}}

\* ACTION=delete with FIREWALLRULE, every list of remote rules on the NIC.
InitDeleteRules ==
    /\ cloud_configs = {}
    /\ json_files \in {Config(<<VolDecl("web1-boot")>>, <<>>, n, <<>>) : n \in OptNicLists}
    /\ env \in {Env("delete", SERVER_NAME, NoVal, NoVal, r) : r \in RuleNames}
    /\ dc \in {<<>>, <<RemoteServer(<<>>, <<>>)>>}
              \cup {<<RemoteServer(<<>>, <<RemoteNic("n1", r)>>)>> :
                      r \in SeqUpTo(RuleNames, MaxRules)}

\* all_available is not running.
IdleBarrier ==
    /\ hrefs = <<>>
    /\ limit = Limit
    /\ all_available = FALSE
    /\ bpc = "idle"
    /\ hidx = 1
    /\ rounds = 0
    /\ sleeps = 0
    /\ okRound = {}
    /\ seen = <<>>
    /\ rawSeen = FALSE

Init ==
    /\ IdleBarrier
    /\ InitLocals
    /\ other = "idle"
    /\ \/ InitCreateNics
       \/ InitCreateVolumes
       \/ InitAttachVolumes
       \/ InitCreatePasswords
       \/ InitDelete
       \/ InitDeleteRules
    /\ disk = json_files

Next ==
    \/ main
    \/ math_func
    \/ create
    \/ create_single
    \/ attach
    \/ attach_single
    \/ attach_single_post
    \/ attach_single_patch
    \/ fwrules_create
    \/ main_fwrules_create
    \/ fwrules_create_single
    \/ fwrules_create_single_nic
    \/ fwrules_create_single_rule
    \/ main_fwrules_delete
    \/ fwrules_delete_single
    \/ fwrules_delete_single_item
    \/ delete
    \/ detach
    \/ detach_loop
    \/ main_detach
    \/ detach_single
    \/ detach_single_delete
    \/ delete_single
    \/ all_available_call

Spec == Init /\ [][Next]_vars

\* ------------------------------------------------------------------ all_available alone
\* The program is not running: all_available is called on a list of hrefs.
IdleProgram ==
    /\ json_files = Config(<<>>, <<>>, <<>>, <<>>)
    /\ disk = json_files
    /\ cloud_configs = {}
    /\ sent = <<>>
    /\ other = "idle"
    /\ runs = 1
    /\ confirmed = FALSE
    /\ dc = <<>>
    /\ env = Env(NoVal, NoVal, NoVal, NoVal, NoVal)
    /\ nextHref = 100
    /\ pc = "idle"
    /\ err = NoVal
    /\ top = NoVal
    /\ href = 0
    /\ type = NoVal
    /\ name = NoVal
    /\ comp = 0
    /\ nic_name = NoVal
    /\ i = 1 /\ j = 1 /\ k = 1 /\ l = 1
    /\ items = <<>>
    /\ log = <<>>

InitBarrier ==
    /\ IdleProgram
    /\ InitBarrierVars
    /\ hrefs \in {[x \in 1..n |-> x] : n \in 0..MaxHrefs}

SpecBarrier == InitBarrier /\ [][NextBarrier]_vars

\* all_available runs in a single thread that keeps running: each step it can
\* take is eventually taken.
SpecBarrierFair == SpecBarrier /\ WF_vars(NextBarrier)

\* ------------------------------------------------------------------ re-invocation
\* The process was killed or has ended, and the operator starts the program again
\* with the same environment: json_files is loaded from disk again, the remote
\* datacenter is what the earlier run left.
reinvoke ==
    /\ pc # "main"
    /\ runs < MaxRuns
    /\ runs' = runs + 1
    /\ json_files' = disk
    /\ confirmed' = FALSE
    /\ pc' = "main"
    /\ err' = NoVal
    /\ top' = NoVal
    /\ href' = 0
    /\ type' = NoVal
    /\ name' = NoVal
    /\ comp' = 0
    /\ nic_name' = NoVal
    /\ i' = 1 /\ j' = 1 /\ k' = 1 /\ l' = 1
    /\ items' = <<>>
    /\ log' = <<>>
    /\ sent' = <<>>
    /\ UNCHANGED <<bvars, other, fixed, dc, nextHref, env>>

\* ACTION=create on a datacenter without the server, ACTION=delete on the server
\* with everything declared attached; every live component is declared.
InitRecover ==
    /\ IdleBarrier
    /\ InitLocals
    /\ other = "idle"
    /\ cloud_configs = {}
    /\ json_files \in {Config(v, <<>>, <<NicDecl("n1", TRUE, <<"r">>)>>, <<>>) :
                          v \in {<<VolDecl("web1-boot")>>,
                                 <<VolDecl("web1-boot"), VolDecl("data1")>>}}
    /\ disk = json_files
    /\ \/ /\ env \in {Env("create", NoVal, NoVal, NoVal, NoVal),
                      Env("create", SERVER_NAME, NoVal, NoVal, NoVal)}
          /\ dc = <<>>
       \/ /\ env \in {Env("delete", NoVal, NoVal, NoVal, NoVal),
                      Env("delete", SERVER_NAME, NoVal, NoVal, NoVal)}
          /\ dc = <<RemoteServer(Names(json_files.volumes), <<RemoteNic("n1", <<"r">>)>>)>>

NextRecover ==
    \/ main
    \/ math_func
    \/ create
    \/ create_single
    \/ attach
    \/ attach_single
    \/ attach_single_post
    \/ attach_single_patch
    \/ fwrules_create
    \/ fwrules_create_single
    \/ fwrules_create_single_nic
    \/ fwrules_create_single_rule
    \/ delete
    \/ detach
    \/ detach_loop
    \/ detach_single
    \/ detach_single_delete
    \/ delete_single
    \/ all_available_call
    \/ reinvoke

SpecRecover == InitRecover /\ [][NextRecover]_vars

\* ------------------------------------------------------------------ two invocations of create
\* A second invocation of the program with ACTION=create runs at the same time,
\* from the same files. It is followed from the guard of create to its server
\* POST; its remote calls interleave with those of the first invocation.
\* create: if server_exists(server_name, api_url, auth_headers): exit(1)
other_create ==
    /\ other = "create"
    /\ other' = IF server_exists(SERVER_NAME, dc) THEN "exit1" ELSE "create_single"
    /\ UNCHANGED <<bvars, sent, fixed, runs, confirmed, json_files, dc, nextHref, env,
                   pc, err, top, Locals, log>>

\* create_single: requests.post(api_url, json=server_deepcopy)
other_create_single ==
    /\ other = "create_single"
    /\ dc' = Append(dc, NewServer(nextHref))
    /\ nextHref' = nextHref + 1 + Len(json_files.evolumes) + Len(json_files.enics)
    /\ other' = "posted"
    /\ UNCHANGED <<bvars, sent, fixed, runs, confirmed, json_files, env,
                   pc, err, top, Locals, log>>

\* Two invocations with ACTION=create for the server, on a datacenter without it.
InitOverlap ==
    /\ IdleBarrier
    /\ InitLocals
    /\ other = "create"
    /\ cloud_configs = {}
    /\ json_files \in {Config(v, <<>>, <<NicDecl("n1", TRUE, <<"r">>)>>, <<>>) :
                          v \in {<<VolDecl("web1-boot")>>,
                                 <<VolDecl("web1-boot"), VolDecl("data1")>>}}
    /\ disk = json_files
    /\ env \in {Env("create", NoVal, NoVal, NoVal, NoVal),
                Env("create", SERVER_NAME, NoVal, NoVal, NoVal)}
    /\ dc = <<>>

NextOverlap ==
    \/ main
    \/ create
    \/ create_single
    \/ attach
    \/ attach_single
    \/ attach_single_post
    \/ attach_single_patch
    \/ fwrules_create
    \/ fwrules_create_single
    \/ fwrules_create_single_nic
    \/ fwrules_create_single_rule
    \/ all_available_call
    \/ other_create
    \/ other_create_single

SpecOverlap == InitOverlap /\ [][NextOverlap]_vars

\* ------------------------------------------------------------------ attach_single invoked again
\* ACTION=create with SERVER and VOLUME or NIC on the existing server, started
\* again after it has ended or was killed.
InitReattach ==
    /\ IdleBarrier
    /\ InitLocals
    /\ other = "idle"
    /\ cloud_configs = {}
    /\ json_files \in {Config(v, <<>>, n, <<>>) :
                          v \in {<<VolDecl("web1-boot")>>, <<VolDecl("data1")>>,
                                 <<VolDecl("web1-boot"), VolDecl("data1")>>},
                          n \in {<<>>, <<NicDecl("n1", FALSE, <<>>)>>}}
    /\ disk = json_files
    /\ env \in {Env("create", SERVER_NAME, v, NoVal, NoVal) : v \in VolNames}
               \cup {Env("create", SERVER_NAME, NoVal, "n1", NoVal)}
    /\ dc = <<RemoteServer(<<>>, <<>>)>>

NextReattach ==
    \/ main
    \/ attach_single
    \/ attach_single_post
    \/ attach_single_patch
    \/ all_available_call
    \/ reinvoke

SpecReattach == InitReattach /\ [][NextReattach]_vars

\* ------------------------------------------------------------------ attach_single alone
\* A remote server with components of every name.
FullServer ==
    RemoteServer(<<"web1-boot", "data1", Undeclared>>,
                 <<RemoteNic("n1", <<>>), RemoteNic("n2", <<>>), RemoteNic(Undeclared, <<>>)>>)

\* attach_single(server_href, server_name, json_file, name, type, ...) called with
\* every argument: the server exists remotely or not, the name is declared as a
\* standalone component, as an embedded one, or not at all.
InitAttach ==
    /\ IdleBarrier
    /\ cloud_configs \in {{}, {YamlOf("web1-boot")}}
    /\ json_files \in {Config(v, e, n, en) :
                          v \in {<<>>} \cup {<<VolDeclWith(x, "null")>> : x \in AllVolNames},
                          e \in EVolLists,
                          n \in {<<>>} \cup {<<NicDecl(x, FALSE, <<>>)>> : x \in {"n1", "web1-boot"}},
                          en \in {<<>>, <<NicDecl("n2", FALSE, <<>>)>>}}
    /\ disk = json_files
    /\ dc \in {<<>>, <<FullServer>>}
    /\ env = Env("create", SERVER_NAME, NoVal, NoVal, NoVal)
    /\ sent = <<>>
    /\ other = "idle"
    /\ runs = 1
    /\ confirmed = FALSE
    /\ nextHref = 100
    /\ pc = "attach_single"
    /\ err = NoVal
    /\ top = "attach"
    /\ href = name_to_href(SERVER_NAME, dc)
    /\ type \in {"volumes", "nics"}
    /\ name \in (IF type = "volumes" THEN AllVolNames ELSE NicNames \cup {"web1-boot"})
                \cup {Undeclared}
    /\ comp = 0
    /\ nic_name = NoVal
    /\ i = 1 /\ j = 1 /\ k = 1 /\ l = 1
    /\ items = <<>>
    /\ log = <<>>

NextAttach ==
    \/ attach_single
    \/ attach_single_post
    \/ attach_single_patch
    \/ all_available_call

SpecAttach == InitAttach /\ [][NextAttach]_vars

\* ------------------------------------------------------------------ name_to_href alone
\* name_to_href that goes through all items and keeps the last one of the name.
name_to_href_for_LastMatch ==
    /\ pc = "name_to_href"
    /\ IF i > Len(items)
       THEN /\ IF href # 0 THEN pc' = "returned" /\ UNCHANGED err ELSE Exit("NotFound")
            /\ UNCHANGED <<href, i>>
       ELSE /\ href' = IF items[i].name = name THEN items[i].href ELSE href
            /\ i' = i + 1
            /\ UNCHANGED <<pc, err>>
    /\ UNCHANGED <<bvars, sent, other, fixed, runs, confirmed, json_files, dc, nextHref, env, top, type,
                   name, comp, nic_name, j, k, l, items, log>>

\* name_to_href, lines 35-41: for item in items: GET the item, return its href if
\* its name is the one asked for; after the loop exit(1)
name_to_href_for ==
    /\ pc = "name_to_href"
    /\ IF i > Len(items)
       THEN /\ Exit("NotFound")
            /\ UNCHANGED <<href, i>>
       ELSE IF items[i].name = name
       THEN /\ href' = items[i].href
            /\ pc' = "returned"
            /\ UNCHANGED <<err, i>>
       ELSE /\ i' = i + 1
            /\ UNCHANGED <<pc, err, href>>
    /\ UNCHANGED <<bvars, sent, other, fixed, runs, confirmed, json_files, dc, nextHref, env, top, type,
                   name, comp, nic_name, j, k, l, items, log>>

\* name_to_href(name, api_url, auth_headers) called on every collection of up to
\* MaxItems items, names repeated or not, and every name.
InitResolve ==
    /\ IdleBarrier
    /\ json_files = Config(<<>>, <<>>, <<>>, <<>>)
    /\ disk = json_files
    /\ cloud_configs = {}
    /\ sent = <<>>
    /\ other = "idle"
    /\ runs = 1
    /\ confirmed = FALSE
    /\ dc = <<>>
    /\ env = Env(NoVal, NoVal, NoVal, NoVal, NoVal)
    /\ nextHref = 100
    /\ pc = "name_to_href"
    /\ err = NoVal
    /\ top = NoVal
    /\ href = 0
    /\ type = NoVal
    /\ name \in VolNames \cup {Undeclared}
    /\ comp = 0
    /\ nic_name = NoVal
    /\ i = 1 /\ j = 1 /\ k = 1 /\ l = 1
    /\ items \in {[x \in DOMAIN s |-> [href |-> 10 + x, name |-> s[x]]] :
                    s \in SeqUpTo(VolNames \cup {Undeclared}, MaxItems)}
    /\ log = <<>>

NextResolve == name_to_href_for

SpecResolve == InitResolve /\ [][NextResolve]_vars

\* ------------------------------------------------------------------ properties of all_available
Returned == bpc = "returned"
TimedOut == bpc = "exit1"
AllHrefs == 1..Len(hrefs)

\* C6: all_available returns only when every href of its list reported AVAILABLE
\* in one and the same polling round, and never before it has made one round.
C6_ReturnsOnlyWhenAllAvailable ==
    Returned => (rounds >= 1 /\ okRound = AllHrefs)

\* C6 witness: two hrefs, a first round that failed, a later round that passed.
C6_Witness == Returned /\ Len(hrefs) = 2 /\ rounds >= 2

\* C7: all_available always ends; it ends with exit(1) only after exactly 120
\* polling rounds, the last of them not all AVAILABLE; it never makes more than
\* 120 rounds, and a 120th round that is all AVAILABLE makes it return.
C7_ExactBudget ==
    /\ <>(Returned \/ TimedOut)
    /\ [](TimedOut => (rounds = 120 /\ okRound # AllHrefs))
    /\ [](rounds <= 120)
    /\ []((bpc = "while" /\ rounds = 120 /\ okRound = AllHrefs) => all_available)

\* C7 witness: the budget is used up and the program ends with exit(1).
C7_Witness == TimedOut /\ rounds = 120 /\ Len(hrefs) = 1

\* The href list and the statuses of the scenario: one href reading BUSY, BUSY,
\* AVAILABLE.
BusyBusyAvailable ==
    /\ Len(hrefs) = 1
    /\ seen = <<"BUSY", "BUSY", "AVAILABLE">>
    /\ Returned

\* C8 as written: three polling rounds come with two sleeps (k rounds, k-1 sleeps).
C8_TwoSleeps == BusyBusyAvailable => (rounds = 3 /\ sleeps = rounds - 1)

\* C8 amended: every polling round begins with its own sleep, so the scenario
\* returns after three polling rounds and three sleeps (k rounds, k sleeps).
C8_ThreeSleeps ==
    /\ BusyBusyAvailable => (rounds = 3 /\ sleeps = 3)
    /\ sleeps = rounds

\* C8 witness: the scenario has run and all_available has returned.
C8_Witness == BusyBusyAvailable /\ rounds = 3

\* ------------------------------------------------------------------ properties of the program
IsMutation(e) == e.verb \in {"POST", "PATCH", "DELETE"}
IsBarrier(e) == e.verb = "BARRIER"
IsPost(e, kind) == e.verb = "POST" /\ e.kind = kind
IsDelete(e, kind) == e.verb = "DELETE" /\ e.kind = kind

\* The names of the POSTs of one kind, in the order they were issued.
PostedNames(kind) == Names(SelectSeq(log, LAMBDA e : IsPost(e, kind)))

Ended == pc \in {"done", "exit1"}

\* C1: create on a server name that exists remotely ends with exit(1)
\* (AlreadyExists) in its guard: no mutating call has been or is issued and the
\* remote datacenter stays as it was.
C1_CreateOnExisting ==
    [][(pc = "create" /\ server_exists(SERVER_NAME, dc))
         => (pc' = "exit1" /\ err' = "AlreadyExists" /\ dc' = dc
             /\ log = <<>> /\ log' = <<>>)]_vars

\* C1 witness: create has met an existing server and ended.
C1_Witness ==
    pc = "exit1" /\ err = "AlreadyExists" /\ server_exists(SERVER_NAME, dc)

\* C2 as written: a delete of an existing server that is confirmed and does not
\* time out ends with the server, and so every NIC and volume attached to it,
\* deleted, whatever is attached remotely.
C2_DeleteRemovesLiveSet ==
    (top = "delete" /\ Ended /\ err \notin {"NoServer", "Declined", "Timeout"})
        => ~server_exists(SERVER_NAME, dc)

\* The order create issues its calls in: server, volumes (with the boot device
\* PATCH), NICs, firewall rules.
CreateRank(e) ==
    IF e.kind = "server" /\ e.verb = "POST" THEN 1
    ELSE IF e.kind = "volumes" \/ e.verb = "PATCH" THEN 2
    ELSE IF e.kind = "nics" THEN 3
    ELSE 4

\* C3: create issues the server POST first, then, each only after the barrier
\* that follows the call before it, the POSTs of the declared standalone volumes,
\* then those of the declared standalone NICs, then the firewall rule POSTs; a
\* create that ends well has posted every declared standalone volume and NIC.
C3_CreateOrder ==
    top = "create" =>
        /\ \A p \in DOMAIN log :
              IsMutation(log[p]) =>
                 IF p = 1 THEN IsPost(log[p], "server")
                 ELSE IsBarrier(log[p - 1]) /\ ~IsPost(log[p], "server")
        /\ \A p, q \in DOMAIN log :
              (p < q /\ IsMutation(log[p]) /\ IsMutation(log[q]))
                 => CreateRank(log[p]) <= CreateRank(log[q])
        /\ pc = "done" =>
              /\ PostedNames("volumes") = Names(json_files.volumes)
              /\ PostedNames("nics") = Names(json_files.nics)

\* C3 witness: a create that ended well after two volumes, a NIC and a rule.
C3_Witness ==
    /\ top = "create" /\ pc = "done"
    /\ Len(PostedNames("volumes")) = 2
    /\ Len(PostedNames("nics")) = 1
    /\ Len(PostedNames("firewallrules")) = 1

\* The order delete issues its calls in: NICs, volumes, server.
DeleteRank(e) ==
    IF e.kind = "nics" THEN 1 ELSE IF e.kind = "volumes" THEN 2 ELSE 3

\* C4: delete first waits for the server, then issues every NIC DELETE before any
\* volume DELETE and the server DELETE last, each only after a barrier; when the
\* server DELETE is issued no NIC and no volume is attached any more.
C4_DeleteOrder ==
    top = "delete" =>
        /\ \A p \in DOMAIN log :
              IsMutation(log[p]) =>
                 /\ log[p].verb = "DELETE"
                 /\ p > 1 /\ IsBarrier(log[p - 1])
                 /\ IsDelete(log[p], "server") => p = Len(log)
        /\ \A p, q \in DOMAIN log :
              (p < q /\ IsMutation(log[p]) /\ IsMutation(log[q]))
                 => DeleteRank(log[p]) <= DeleteRank(log[q])
        /\ pc = "delete_single" =>
              (ServerAt(href).nics = <<>> /\ ServerAt(href).volumes = <<>>)

\* C4 witness: a delete that ended well after a NIC and a volume DELETE.
C4_Witness ==
    /\ top = "delete" /\ pc = "done"
    /\ \E p \in DOMAIN log : IsDelete(log[p], "nics")
    /\ \E p \in DOMAIN log : IsDelete(log[p], "volumes")
    /\ IsDelete(log[Len(log)], "server")

\* C5 as written: no two mutating calls follow each other without a barrier
\* between them.
C5_BarrierBetweenMutations ==
    \A p \in DOMAIN log :
        (p > 1 /\ IsMutation(log[p])) => ~IsMutation(log[p - 1])

\* C5 amended: two mutating calls follow each other without a barrier only when
\* both are DELETEs of firewall rules of the same name on the same NIC, which one
\* call of fwrules_delete_single issues together and follows by one barrier; and
\* no operation goes on to its next step after a mutating call without a barrier.
C5_BarrierBetweenMutationsButRuleBatch ==
    /\ \A p \in DOMAIN log :
          (p > 1 /\ IsMutation(log[p]) /\ IsMutation(log[p - 1]))
             => /\ IsDelete(log[p], "firewallrules")
                /\ IsDelete(log[p - 1], "firewallrules")
                /\ log[p].name = log[p - 1].name
                /\ log[p].nic = log[p - 1].nic
    /\ (pc = "done" /\ log # <<>> /\ top # "delete") => IsBarrier(log[Len(log)])

\* C5 witness: two rule DELETEs issued together and followed by their barrier.
C5_Witness ==
    \E p \in DOMAIN log :
        /\ p > 2
        /\ IsBarrier(log[p])
        /\ IsDelete(log[p - 1], "firewallrules")
        /\ IsDelete(log[p - 2], "firewallrules")

\* The NIC names with a declaration whose firewallrules carry one name twice.
DuplicateNics ==
    {AllNics(json_files)[x].name : x \in
        {y \in DOMAIN AllNics(json_files) : HasDuplicate(AllNics(json_files)[y].fw)}}

\* The declared NIC names are unique (no NIC is declared twice).
UniqueNicNames ==
    \A x, y \in DOMAIN AllNics(json_files) :
        AllNics(json_files)[x].name = AllNics(json_files)[y].name => x = y

\* C9 as written: when create synchronizes the firewall rules and a NIC declares
\* two rules of one name, in the standalone list, the embedded list or both, the
\* run does not end well and no firewall rule POST is issued for that NIC.
C9_NoPostForDuplicateNic ==
    top = "create" =>
        /\ \A p \in DOMAIN log :
              IsPost(log[p], "firewallrules") => log[p].nic \notin DuplicateNics
        /\ DuplicateNics # {} => pc # "done"

\* C10 as written: a create that ends with DuplicateName has issued no firewall
\* rule POST at all (stated for configurations that declare no NIC twice).
C10_NoPostBeforeDuplicateName ==
    (top = "create" /\ err = "DuplicateName" /\ UniqueNicNames)
        => \A p \in DOMAIN log : ~IsPost(log[p], "firewallrules")

\* C10 amended: the check is made per NIC declaration, when its first rule is
\* about to be created: no rule of a declaration that carries one name twice is
\* ever posted, a run with a declaration of that kind among the NICs it handles
\* ends with DuplicateName at that declaration, and when no NIC is declared
\* twice no rule is posted for such a NIC; rules of NICs handled before it may
\* have been created.
C10_NoPostFromDuplicateDeclaration ==
    /\ \A p \in DOMAIN log :
          IsPost(log[p], "firewallrules") =>
             /\ ~HasDuplicate(AllNics(json_files)[log[p].decl].fw)
             /\ UniqueNicNames => log[p].nic \notin DuplicateNics
    /\ err = "DuplicateName" =>
          (pc = "exit1" /\ HasDuplicate(AllNics(json_files)[k].fw))
    /\ (top = "create" /\ DuplicateNics # {}) => pc # "done"

\* C10 witness: a run ended with DuplicateName on one NIC after the rule of
\* another NIC was posted.
C10_Witness ==
    /\ top = "create"
    /\ err = "DuplicateName"
    /\ UniqueNicNames
    /\ \E p \in DOMAIN log : IsPost(log[p], "firewallrules")


\* ------------------------------------------------------------------ C11, C12
IsVerb(e, verb) == e.verb = verb
NoneInLog(verb) == \A x \in DOMAIN log : ~IsVerb(log[x], verb)

\* C11 (as stated): detach_single of a name that is not in the server's standalone
\* list of that type -- the names attach_single's guard rejects -- ends with
\* exit(1) at the guard and issues no DELETE.
C11_DetachRejectsWhatAttachRejects ==
    (top = "detach" /\ ~InList(name, JfList(type)))
        => (NoneInLog("DELETE")
            /\ pc \notin {"detach_single_delete", "detach_single_wait", "done"})

\* C11 (amended): detach_single of a name that is neither in the standalone list
\* nor among the server's embedded entities of that type ends with exit(1) at the
\* guard and issues no DELETE; the guard stops the program for no other name.
C11_DetachRejectsUndeclared ==
    top = "detach" =>
        /\ ~InList(name, JfList(type) \o JfEmbedded(type))
              => (NoneInLog("DELETE")
                  /\ pc \notin {"detach_single_delete", "detach_single_wait", "done"})
        /\ err = "NotDeclared" => ~InList(name, JfList(type) \o JfEmbedded(type))

C11_Witness ==
    /\ top = "detach"
    /\ pc = "exit1"
    /\ err = "NotDeclared"
    /\ InList(name, Attached(ServerAt(href), type))

\* C12: attach_single ends with exit(1) at its guard, having issued no POST and no
\* PATCH, whenever the server does not exist remotely or the name is not among the
\* declared standalone components of the type; it ends there for no other input.
C12_AttachRejects ==
    top = "attach" =>
        /\ (~server_exists(SERVER_NAME, dc) \/ ~InList(name, JfList(type)))
              => (log = <<>> /\ pc \in {"attach_single", "exit1"})
        /\ err \in {"NoServer", "NotDeclared"}
              => (~server_exists(SERVER_NAME, dc) \/ ~InList(name, JfList(type)))

C12_Witness ==
    /\ top = "attach"
    /\ pc = "exit1"
    /\ err = "NoServer"
    /\ InList(name, JfList(type))
    /\ log = <<>>

\* ------------------------------------------------------------------ C13
\* The volumes of the server the running operation works on.
ServerVolumes == ServerAt(href).volumes

\* C13: attach_single issues the PATCH that sets the boot device exactly for a
\* volume whose name ends with "-boot": the PATCH comes right after the barrier
\* that follows the POST of that volume, sets bootVolume to the volume just
\* attached, and is followed by a barrier; after the POST of a NIC or of any other
\* volume no PATCH follows.
C13_BootPatch ==
    \A x \in DOMAIN log :
        /\ IsVerb(log[x], "PATCH")
              => /\ x >= 3
                 /\ IsBarrier(log[x - 1])
                 /\ IsPost(log[x - 2], "volumes")
                 /\ log[x - 2].name = log[x].name
                 /\ EndsWithBoot(log[x].name)
                 /\ IF x < Len(log) THEN IsBarrier(log[x + 1])
                    ELSE /\ pc = "attach_single_wait2" \/ (pc = "exit1" /\ err = "Timeout")
                         /\ ServerAt(href).boot = comp
                         /\ ServerVolumes[Len(ServerVolumes)] = [href |-> comp, name |-> log[x].name]
        /\ (IsPost(log[x], "volumes") /\ EndsWithBoot(log[x].name))
              => /\ x + 1 <= Len(log) => IsBarrier(log[x + 1])
                 /\ x + 2 <= Len(log) => IsVerb(log[x + 2], "PATCH")
                 /\ x + 1 = Len(log) => pc = "attach_single_patch"
                 /\ x = Len(log) => pc = "attach_single_wait1" \/ (pc = "exit1" /\ err = "Timeout")

C13_Witness ==
    /\ pc = "done"
    /\ Len(log) = 4
    /\ IsPost(log[1], "volumes") /\ log[1].name = "web1-boot"
    /\ IsBarrier(log[2])
    /\ IsVerb(log[3], "PATCH")
    /\ IsBarrier(log[4])
    /\ ServerAt(href).boot = comp

\* ------------------------------------------------------------------ C14
LastCall == log[Len(log)]

\* The program is at the first statement of the operation main dispatched to (the
\* operation's guard).
AtGuard ==
    \/ pc \in {"create", "delete"}
    \/ top = "attach" /\ pc = "attach_single"
    \/ top = "detach" /\ pc = "detach_single"

\* The program ended at the guard of the operation main dispatched to.
GuardFailed ==
    /\ pc = "exit1"
    /\ \/ err = "AlreadyExists"
       \/ top \in {"delete", "attach", "detach"} /\ err = "NoServer"
       \/ top \in {"attach", "detach"} /\ err = "NotDeclared"

\* C14 (as stated): an operation that ends well has a barrier as the last remote
\* interaction after its last mutating call.
C14_EndsWithBarrier == (pc = "done" /\ log # <<>>) => IsBarrier(LastCall)

\* C14 (amended): nothing is mutated before the guard of the operation has passed,
\* and a failed guard ends the operation with nothing mutated; an operation that
\* ends well has a barrier after its last mutating call, except delete, which
\* ends with the DELETE of the server, issued right after a barrier.
C14_GuardFirstBarrierLastButDelete ==
    /\ (AtGuard \/ GuardFailed) => log = <<>>
    /\ (pc = "done" /\ log # <<>>)
          => IF top = "delete"
             THEN /\ IsDelete(LastCall, "server")
                  /\ Len(log) >= 2
                  /\ IsBarrier(log[Len(log) - 1])
             ELSE IsBarrier(LastCall)

C14_Witness ==
    /\ pc = "done"
    /\ top = "delete"
    /\ Len(log) > 2
    /\ IsDelete(LastCall, "server")

\* ------------------------------------------------------------------ C15
\* The remote server carries every declared standalone volume and NIC and every
\* declared firewall rule (the state Ready).
Ready ==
    /\ server_exists(SERVER_NAME, dc)
    /\ LET s == ServerAt(name_to_href(SERVER_NAME, dc))
       IN  /\ \A x \in DOMAIN json_files.volumes : InList(json_files.volumes[x].name, s.volumes)
           /\ \A x \in DOMAIN json_files.nics :
                 \E y \in DOMAIN s.nics :
                    /\ s.nics[y].name = json_files.nics[x].name
                    /\ \A z \in DOMAIN json_files.nics[x].fw :
                          InList(json_files.nics[x].fw[z], s.nics[y].rules)

\* The server was there when this run of the program began.
ExistedAtStart ==
    /\ server_exists(SERVER_NAME, dc)
    /\ \A x \in DOMAIN log : ~IsPost(log[x], "server")

HeldVolumes == json_files.volumes \o json_files.evolumes

\* C16: a generated image password exists only inside the outgoing request
\* payload: it is never stored in state that outlives the request, in particular
\* not in json_files.
C16_PasswordOnlyInPayload ==
    \A x \in DOMAIN HeldVolumes : HeldVolumes[x].imagePassword # "generated"

\* C20: json_files is left unchanged by every operation: at every moment it is
\* what was loaded from disk.
C20_JsonFilesUnchanged == json_files = disk

\* ------------------------------------------------------------------ C17
\* The positions of the collection whose item carries the name asked for.
Matches == {x \in DOMAIN items : items[x].name = name}

\* C17: name_to_href returns the href of the first item, in collection order,
\* whose name equals the requested name, and ends with exit(1) exactly when no
\* item has that name.
C17_FirstMatch ==
    /\ pc = "returned"
          => /\ Matches # {}
             /\ href = items[Min(Matches)].href
             /\ href = name_to_href(name, items)
    /\ pc = "exit1" => (Matches = {} /\ name_to_href(name, items) = 0)
    /\ (pc = "name_to_href" /\ Matches # {}) => i <= Min(Matches)

C17_Witness ==
    /\ pc = "returned"
    /\ Cardinality(Matches) >= 2
    /\ Min(Matches) >= 2
    /\ href = items[Min(Matches)].href

\* ------------------------------------------------------------------ C18
\* C18: no DELETE is issued unless the operator has confirmed in the same run
\* (answered yes and the right result); when the confirmation is declined or the
\* result is wrong the program ends with exit(1) with no DELETE issued.
C18_DeleteOnlyAfterConfirmation ==
    /\ ~NoneInLog("DELETE") => confirmed
    /\ pc \in {"delete", "detach", "detach_loop", "main_detach", "detach_single",
               "detach_single_delete", "delete_single", "main_fwrules_delete",
               "fwrules_delete_single", "fwrules_delete_single_item"} => confirmed
    /\ err = "Declined" => (pc = "exit1" /\ log = <<>> /\ ~confirmed)

C18_Witness ==
    /\ confirmed
    /\ top = "fwdelete"
    /\ pc = "done"
    /\ ~NoneInLog("DELETE")

\* ------------------------------------------------------------------ C19
\* C19: a polled href whose response has no state field is treated as busy for
\* that round: the step that reads it does not end all_available, does not count
\* the href as available, ends the round as not all available and leaves the
\* budget as it is, so that polling goes on with the next round.
C19_MissingStateIsBusy ==
    [][(~rawSeen /\ rawSeen')
          => /\ bpc' = "dec"
             /\ all_available' = FALSE
             /\ okRound' = okRound
             /\ limit' = limit
             /\ Len(seen) < MaxSeen => seen' = Append(seen, "BUSY")]_vars

C19_Witness ==
    /\ rawSeen
    /\ Returned
    /\ rounds = 2
    /\ seen = <<"BUSY", "AVAILABLE">>

\* ------------------------------------------------------------------ C21, C22
\* C21: in the payload create posts, the imagePassword of every embedded volume is
\* a generated one exactly when the declared value is null; a declared password is
\* sent as it is and an absent key stays absent, whatever the position of the
\* volume and whatever the other volumes declare.
C21_GeneratedIffNull ==
    \A y \in DOMAIN sent :
        sent[y].kind = "server" =>
            \A x \in DOMAIN sent[y].volumes :
                sent[y].volumes[x].imagePassword =
                    IF disk.evolumes[x].imagePassword = "null" THEN "generated"
                    ELSE disk.evolumes[x].imagePassword

\* C22: a posted volume carries userData only if its name ends with "-boot" and the
\* template file of that volume is in the cloud-configs directory; create and
\* attach_single decide it alike.
C22_UserDataOnlyForBootVolume ==
    \A y \in DOMAIN sent :
        \A x \in DOMAIN sent[y].volumes :
            sent[y].volumes[x].userData
                => /\ EndsWithBoot(sent[y].volumes[x].name)
                   /\ YamlOf(sent[y].volumes[x].name) \in cloud_configs

\* ------------------------------------------------------------------ C23
\* The positions of the log with the POST of the firewall rule r on the NIC n.
RulePosts(n, r) ==
    {x \in DOMAIN log : IsPost(log[x], "firewallrules") /\ log[x].nic = n /\ log[x].name = r}

\* C23: when no NIC declares two rules of one name, create's fwrules_create posts
\* no rule of a NIC more than once, also when the NIC is declared in the standalone
\* and in the embedded list; when create has ended well every declared rule has
\* been posted exactly once.
C23_OnePostPerRule ==
    (top = "create" /\ DuplicateNics = {})
        => \A x \in DOMAIN AllNics(json_files) :
              \A y \in DOMAIN AllNics(json_files)[x].fw :
                 LET posts == RulePosts(AllNics(json_files)[x].name, AllNics(json_files)[x].fw[y])
                 IN  /\ Cardinality(posts) <= 1
                     /\ pc = "done" => Cardinality(posts) = 1

\* ------------------------------------------------------------------ C24
\* No name stands twice in one list.
NoRepeat(list) == \A x, y \in DOMAIN list : list[x].name = list[y].name => x = y

\* How many components of the type and name the server of the running operation has.
RemoteCount(t, n) ==
    Cardinality({x \in DOMAIN Attached(ServerAt(href), t) : Attached(ServerAt(href), t)[x].name = n})

\* create has ended well, and neither the standalone nor the embedded list of a
\* type names a component twice.
CreatedFromCleanLists ==
    /\ top = "create"
    /\ pc = "done"
    /\ \A t \in {"volumes", "nics"} : NoRepeat(JfList(t)) /\ NoRepeat(JfEmbedded(t))

SameNamedServers == {x \in DOMAIN dc : dc[x].name = SERVER_NAME}

\* C25: with two invocations of create for one server name running at the same
\* time, at most one of them posts the server: the datacenter never holds two
\* servers of that name.
C25_AtMostOneServer == Cardinality(SameNamedServers) <= 1

\* ------------------------------------------------------------------ C26
\* C26: attach_single invoked a second time for a declared component of the
\* existing server issues no second POST: when the invocation has ended well the
\* server carries exactly one component of that name.
C26_AttachedOnce ==
    (top = "attach" /\ pc = "done") => RemoteCount(type, name) = 1
====
